---- MODULE Spec2Model ----
(***************************************************************************)
(* Model of the hybrid patch applier: PatchParser (parser_handler.py) and  *)
(* PatchApplier (applier.py).                                              *)
(*                                                                         *)
(* A text is a sequence of one-character strings, so that rstrip('\n'),    *)
(* strip(), endswith('\n') and the substring test `x in y` are computed    *)
(* as Python computes them.  Indices are zero-based as in the source; the  *)
(* element at Python index k of a list xs is xs[k + 1].                    *)
(***************************************************************************)
EXTENDS Integers, Sequences, FiniteSets, TLC

\* ---------------------------------------------------------------- bounds
MaxLines == 3
MaxHunkLines == 2
MaxHunks == 2
MaxPatchLines == 4

\* ------------------------------------------------------------- characters
NL == "\n"
SP == " "
\* Python's None: for an Optional[int] and for an Optional[str]
NoIndex == 0 - 1
NoAnchor == <<"None">>

\* ------------------------------------------------------------ str helpers
\* str.rstrip('\n')
RECURSIVE RStripNL(_)
RStripNL(s) ==
    IF Len(s) > 0 /\ s[Len(s)] = NL
    THEN RStripNL(SubSeq(s, 1, Len(s) - 1))
    ELSE s

IsSpace(c) == c \in {SP, NL}

RECURSIVE LStrip(_)
LStrip(s) ==
    IF Len(s) > 0 /\ IsSpace(s[1]) THEN LStrip(Tail(s)) ELSE s

RECURSIVE RStrip(_)
RStrip(s) ==
    IF Len(s) > 0 /\ IsSpace(s[Len(s)])
    THEN RStrip(SubSeq(s, 1, Len(s) - 1))
    ELSE s

\* str.strip()
Strip(s) == RStrip(LStrip(s))

\* str.endswith('\n')
EndsWithNL(s) == Len(s) > 0 /\ s[Len(s)] = NL

\* str.startswith(p)
StartsWith(s, p) == Len(s) >= Len(p) /\ SubSeq(s, 1, Len(p)) = p

\* the scan of `sub in s`, from offset k
RECURSIVE ContainsFrom(_, _, _)
ContainsFrom(sub, s, k) ==
    IF k + Len(sub) > Len(s) THEN FALSE
    ELSE IF SubSeq(s, k + 1, k + Len(sub)) = sub THEN TRUE
    ELSE ContainsFrom(sub, s, k + 1)

\* `sub in s`
Contains(sub, s) == ContainsFrom(sub, s, 0)

\* str.split('\n')
RECURSIVE SplitNL(_, _, _)
SplitNL(s, cur, acc) ==
    IF s = <<>> THEN Append(acc, cur)
    ELSE IF Head(s) = NL THEN SplitNL(Tail(s), <<>>, Append(acc, cur))
    ELSE SplitNL(Tail(s), Append(cur, Head(s)), acc)

Split(s) == SplitNL(s, <<>>, <<>>)

\* '\n'.join(parts)
RECURSIVE Join(_)
Join(parts) ==
    IF parts = <<>> THEN <<>>
    ELSE IF Len(parts) = 1 THEN parts[1]
    ELSE parts[1] \o <<NL>> \o Join(Tail(parts))

\* ----------------------------------------------------------- list helpers
\* list.pop(idx), 0 <= idx < len
Pop(xs, idx) == SubSeq(xs, 1, idx) \o SubSeq(xs, idx + 2, Len(xs))

\* list.insert(idx, x), idx >= 0; an index past the end appends
Insert(xs, idx, x) ==
    IF idx >= Len(xs) THEN Append(xs, x)
    ELSE SubSeq(xs, 1, idx) \o <<x>> \o SubSeq(xs, idx + 1, Len(xs))

Min(a, b) == IF a < b THEN a ELSE b

\* ------------------------------------------------------ PatchApplier: unified
\* _find_line_in_content: first index whose line equals target, or None
RECURSIVE FindLineFrom(_, _, _)
FindLineFrom(content, target, i) ==
    IF i >= Len(content) THEN NoIndex
    ELSE IF RStripNL(content[i + 1]) = target THEN i
    ELSE FindLineFrom(content, target, i + 1)

FindLineInContent(content, target) == FindLineFrom(content, target, 0)

\* the texts of the hunk lines of one type, in hunk order
RECURSIVE LinesOfType(_, _)
LinesOfType(lines, t) ==
    IF lines = <<>> THEN <<>>
    ELSE IF Head(lines).type = t
         THEN <<Head(lines).content>> \o LinesOfType(Tail(lines), t)
         ELSE LinesOfType(Tail(lines), t)

\* the inner loop of _find_best_unified_position: the window at i matches
RECURSIVE WindowMatches(_, _, _, _)
WindowMatches(content, context_lines, i, j) ==
    IF j >= Len(context_lines) THEN TRUE
    ELSE IF RStripNL(content[i + j + 1]) # context_lines[j + 1] THEN FALSE
    ELSE WindowMatches(content, context_lines, i, j + 1)

\* the outer loop of _find_best_unified_position
RECURSIVE FindWindowFrom(_, _, _)
FindWindowFrom(content, context_lines, i) ==
    IF i >= Len(content) - Len(context_lines) + 1 THEN NoIndex
    ELSE IF WindowMatches(content, context_lines, i, 0) THEN i
    ELSE FindWindowFrom(content, context_lines, i + 1)

\* variant: without context lines the first hunk line is searched, whatever
\* its type
FindBestUnifiedPositionAnyLine(content, hunk) ==
    LET ctx == LinesOfType(hunk.lines, " ")
        context_lines == [k \in 1..Len(ctx) |-> RStripNL(ctx[k])]
    IN  IF context_lines = <<>>
        THEN IF hunk.lines # <<>>
             THEN FindLineInContent(content, RStripNL(hunk.lines[1].content))
             ELSE NoIndex
        ELSE FindWindowFrom(content, context_lines, 0)

\* _find_best_unified_position
FindBestUnifiedPosition(content, hunk) ==
    LET ctx == LinesOfType(hunk.lines, " ")
        context_lines == [k \in 1..Len(ctx) |-> RStripNL(ctx[k])]
        removes == LinesOfType(hunk.lines, "-")
    IN  IF context_lines = <<>>
        THEN IF removes # <<>>
             THEN FindLineInContent(content, RStripNL(removes[1]))
             ELSE NoIndex
        ELSE FindWindowFrom(content, context_lines, 0)

\* variant: only the context lines are compared, the remove lines are stepped over
RECURSIVE ValidateUnifiedContextOnly(_, _, _)
ValidateUnifiedContextOnly(content, lines, content_idx) ==
    IF lines = <<>> THEN TRUE
    ELSE IF Head(lines).type = " "
         THEN IF content_idx >= Len(content) THEN FALSE
              ELSE IF RStripNL(content[content_idx + 1]) # RStripNL(Head(lines).content)
                   THEN FALSE
                   ELSE ValidateUnifiedContextOnly(content, Tail(lines), content_idx + 1)
         ELSE IF Head(lines).type = "-"
         THEN ValidateUnifiedContextOnly(content, Tail(lines), content_idx + 1)
         ELSE ValidateUnifiedContextOnly(content, Tail(lines), content_idx)

\* _validate_unified_context
RECURSIVE ValidateUnifiedContext(_, _, _)
ValidateUnifiedContext(content, lines, content_idx) ==
    IF lines = <<>> THEN TRUE
    ELSE IF Head(lines).type \in {" ", "-"}
         THEN IF content_idx >= Len(content) THEN FALSE
              ELSE IF RStripNL(content[content_idx + 1]) # RStripNL(Head(lines).content)
                   THEN FALSE
                   ELSE ValidateUnifiedContext(content, Tail(lines), content_idx + 1)
         ELSE ValidateUnifiedContext(content, Tail(lines), content_idx)

\* _perform_unified_changes, first loop: the changes recorded when not
\* reverting, and the running index after the last hunk line
RECURSIVE CollectChanges(_, _, _, _)
CollectChanges(lines, content_idx, revert, acc) ==
    IF lines = <<>> THEN [changes |-> acc, content_idx |-> content_idx]
    ELSE LET line == Head(lines) IN
         IF line.type = " "
         THEN CollectChanges(Tail(lines), content_idx + 1, revert, acc)
         ELSE IF line.type = "-"
         THEN CollectChanges(Tail(lines), content_idx + 1, revert,
                  IF ~revert
                  THEN Append(acc, [op |-> "remove", idx |-> content_idx, text |-> line.content])
                  ELSE acc)
         ELSE IF line.type = "+"
         THEN CollectChanges(Tail(lines), content_idx, revert,
                  IF ~revert
                  THEN Append(acc, [op |-> "add", idx |-> content_idx, text |-> line.content])
                  ELSE acc)
         ELSE CollectChanges(Tail(lines), content_idx, revert, acc)

\* the search of the revert loop: first index at or after i whose line equals text
RECURSIVE FindEqualFrom(_, _, _)
FindEqualFrom(content, text, i) ==
    IF i >= Len(content) THEN NoIndex
    ELSE IF RStripNL(content[i + 1]) = RStripNL(text) THEN i
    ELSE FindEqualFrom(content, text, i + 1)

\* _perform_unified_changes, second loop (revert only): roles inverted
RECURSIVE CollectRevertChanges(_, _, _, _, _)
CollectRevertChanges(content, lines, start_line, content_idx, acc) ==
    IF lines = <<>> THEN acc
    ELSE LET line == Head(lines)
             found == FindEqualFrom(content, line.content, start_line)
         IN  IF line.type = "+"
             THEN CollectRevertChanges(content, Tail(lines), start_line, content_idx,
                      IF found # NoIndex
                      THEN Append(acc, [op |-> "remove", idx |-> found, text |-> line.content])
                      ELSE acc)
             ELSE IF line.type = "-"
             THEN CollectRevertChanges(content, Tail(lines), start_line, content_idx,
                      Append(acc, [op |-> "add", idx |-> content_idx, text |-> line.content]))
             ELSE CollectRevertChanges(content, Tail(lines), start_line, content_idx, acc)

\* one step of the stable sort: c goes after every change whose index is not smaller
RECURSIVE InsertByIdxDesc(_, _)
InsertByIdxDesc(sorted, c) ==
    IF sorted = <<>> THEN <<c>>
    ELSE IF Head(sorted).idx >= c.idx
         THEN <<Head(sorted)>> \o InsertByIdxDesc(Tail(sorted), c)
         ELSE <<c>> \o sorted

\* changes.sort(key=lambda x: x[1], reverse=True): stable, descending index
RECURSIVE SortChanges(_, _)
SortChanges(changes, acc) ==
    IF changes = <<>> THEN acc
    ELSE SortChanges(Tail(changes), InsertByIdxDesc(acc, Head(changes)))

\* the body of the loop that applies one change
ApplyChange(content, c) ==
    IF c.op = "remove"
    THEN IF c.idx < Len(content) THEN Pop(content, c.idx) ELSE content
    ELSE LET line_content ==
                 IF ~EndsWithNL(c.text) /\ c.idx < Len(content)
                 THEN Append(c.text, NL)
                 ELSE c.text
         IN  Insert(content, c.idx, line_content)

RECURSIVE ApplyChanges(_, _)
ApplyChanges(content, changes) ==
    IF changes = <<>> THEN content
    ELSE ApplyChanges(ApplyChange(content, Head(changes)), Tail(changes))

\* _perform_unified_changes: the content after the hunk (it always returns True)
PerformUnifiedChanges(content, hunk, start_line, revert) ==
    LET first == CollectChanges(hunk.lines, start_line, revert, <<>>)
        changes == IF revert
                   THEN CollectRevertChanges(content, hunk.lines, start_line,
                                             first.content_idx, first.changes)
                   ELSE first.changes
    IN  ApplyChanges(content, SortChanges(changes, <<>>))

\* variant: a declared start at which the hunk does not match falls back to
\* the search
ResolveUnifiedTargetSearching(content, hunk) ==
    IF hunk.old_start = NoIndex \/ hunk.old_start <= 1
    THEN FindBestUnifiedPosition(content, hunk)
    ELSE IF ValidateUnifiedContext(content, hunk.lines, hunk.old_start - 1)
    THEN hunk.old_start - 1
    ELSE FindBestUnifiedPosition(content, hunk)

\* _apply_unified_hunk: [ok, content, warnings, target_line]
ResolveUnifiedTarget(content, hunk) ==
    IF hunk.old_start = NoIndex \/ hunk.old_start <= 1
    THEN FindBestUnifiedPosition(content, hunk)
    ELSE hunk.old_start - 1

\* variant: the changes are made before the context is validated, so a hunk
\* that fails validation has already changed the content
ApplyUnifiedHunkUnvalidated(content, hunk, revert) ==
    LET target_line == ResolveUnifiedTarget(content, hunk) IN
    IF target_line = NoIndex
    THEN [ok |-> FALSE, content |-> content, warnings |-> <<"position_not_found">>,
          target_line |-> NoIndex]
    ELSE [ok |-> ValidateUnifiedContext(content, hunk.lines, target_line),
          content |-> PerformUnifiedChanges(content, hunk, target_line, revert),
          warnings |-> IF ValidateUnifiedContext(content, hunk.lines, target_line)
                       THEN <<>> ELSE <<"context_mismatch">>,
          target_line |-> target_line]

\* variant: a hunk whose declared old_count differs from the number of its
\* context and remove lines is refused
ApplyUnifiedHunkCheckingCounts(content, hunk, revert) ==
    LET target_line == ResolveUnifiedTarget(content, hunk) IN
    IF target_line = NoIndex
    THEN [ok |-> FALSE, content |-> content, warnings |-> <<"position_not_found">>,
          target_line |-> NoIndex]
    ELSE IF \/ ~ValidateUnifiedContext(content, hunk.lines, target_line)
            \/ /\ "old_count" \in DOMAIN hunk
               /\ hunk.old_count # Len(LinesOfType(hunk.lines, " "))
                                       + Len(LinesOfType(hunk.lines, "-"))
    THEN [ok |-> FALSE, content |-> content, warnings |-> <<"context_mismatch">>,
          target_line |-> target_line]
    ELSE [ok |-> TRUE,
          content |-> PerformUnifiedChanges(content, hunk, target_line, revert),
          warnings |-> <<>>, target_line |-> target_line]

ApplyUnifiedHunk(content, hunk, revert) ==
    LET target_line == ResolveUnifiedTarget(content, hunk) IN
    IF target_line = NoIndex
    THEN [ok |-> FALSE, content |-> content, warnings |-> <<"position_not_found">>,
          target_line |-> NoIndex]
    ELSE IF ~ValidateUnifiedContext(content, hunk.lines, target_line)
    THEN [ok |-> FALSE, content |-> content, warnings |-> <<"context_mismatch">>,
          target_line |-> target_line]
    ELSE [ok |-> TRUE,
          content |-> PerformUnifiedChanges(content, hunk, target_line, revert),
          warnings |-> <<>>, target_line |-> target_line]

\* ------------------------------------------------------ PatchApplier: anchors
\* the inner loop of the multi-line branch of _find_anchor_matches
RECURSIVE AnchorWindowMatches(_, _, _, _)
AnchorWindowMatches(content, anchor_lines, i, j) ==
    IF j >= Len(anchor_lines) THEN TRUE
    ELSE IF ~Contains(Strip(anchor_lines[j + 1]), RStripNL(content[i + j + 1])) THEN FALSE
    ELSE AnchorWindowMatches(content, anchor_lines, i, j + 1)

\* the loops of _find_anchor_matches over i, below limit
RECURSIVE CollectMatches(_, _, _, _, _)
CollectMatches(content, anchor_lines, i, limit, matches) ==
    IF i >= limit THEN matches
    ELSE CollectMatches(content, anchor_lines, i + 1, limit,
             IF AnchorWindowMatches(content, anchor_lines, i, 0)
             THEN Append(matches, i)
             ELSE matches)

\* variant: the search stops at the first match
FindAnchorMatchesFirstOnly(content, anchor) ==
    LET anchor_lines == Split(anchor)
        limit == IF Len(anchor_lines) = 1 THEN Len(content)
                 ELSE Len(content) - Len(anchor_lines) + 1
        found == CollectMatches(content, anchor_lines, 0, limit, <<>>)
    IN  IF found = <<>> THEN <<>> ELSE <<found[1]>>

\* _find_anchor_matches
FindAnchorMatches(content, anchor) ==
    LET anchor_lines == Split(anchor) IN
    IF Len(anchor_lines) = 1
    THEN CollectMatches(content, anchor_lines, 0, Len(content), <<>>)
    ELSE CollectMatches(content, anchor_lines, 0,
                        Len(content) - Len(anchor_lines) + 1, <<>>)

\* the inner loop of the removal search of _perform_anchor_changes
RECURSIVE FindRemovalFrom(_, _, _, _)
FindRemovalFrom(content, removal, i, search_end) ==
    IF i >= search_end THEN NoIndex
    ELSE IF i < Len(content) /\ Contains(Strip(removal), RStripNL(content[i + 1])) THEN i
    ELSE FindRemovalFrom(content, removal, i + 1, search_end)

\* the outer loop of the removal search: removal_indices
RECURSIVE RemovalIndices(_, _, _, _, _)
RemovalIndices(content, removals, search_start, search_end, acc) ==
    IF removals = <<>> THEN acc
    ELSE LET found == FindRemovalFrom(content, Head(removals), search_start, search_end)
         IN  RemovalIndices(content, Tail(removals), search_start, search_end,
                            IF found # NoIndex THEN Append(acc, found) ELSE acc)

\* one step of sorted(removal_indices, reverse=True)
RECURSIVE InsertDesc(_, _)
InsertDesc(sorted, x) ==
    IF sorted = <<>> THEN <<x>>
    ELSE IF Head(sorted) >= x THEN <<Head(sorted)>> \o InsertDesc(Tail(sorted), x)
    ELSE <<x>> \o sorted

\* sorted(removal_indices, reverse=True)
RECURSIVE SortDesc(_, _)
SortDesc(xs, acc) ==
    IF xs = <<>> THEN acc
    ELSE SortDesc(Tail(xs), InsertDesc(acc, Head(xs)))

\* the loop that pops the marked lines
RECURSIVE PopAll(_, _)
PopAll(content, indices) ==
    IF indices = <<>> THEN content
    ELSE PopAll(IF Head(indices) < Len(content) THEN Pop(content, Head(indices)) ELSE content,
                Tail(indices))

\* variant: the insertion cursor is not advanced
RECURSIVE InsertAdditionsSamePos(_, _, _)
InsertAdditionsSamePos(content, additions, insert_pos) ==
    IF additions = <<>> THEN content
    ELSE LET addition ==
                 IF ~EndsWithNL(Head(additions)) /\ insert_pos < Len(content)
                 THEN Append(Head(additions), NL)
                 ELSE Head(additions)
         IN  InsertAdditionsSamePos(Insert(content, insert_pos, addition),
                                    Tail(additions), insert_pos)

\* the loop that inserts the additions from insert_pos on
RECURSIVE InsertAdditions(_, _, _)
InsertAdditions(content, additions, insert_pos) ==
    IF additions = <<>> THEN content
    ELSE LET addition ==
                 IF ~EndsWithNL(Head(additions)) /\ insert_pos < Len(content)
                 THEN Append(Head(additions), NL)
                 ELSE Head(additions)
         IN  InsertAdditions(Insert(content, insert_pos, addition), Tail(additions),
                             insert_pos + 1)

\* the removal and addition texts of a hunk, swapped when reverting
AnchorRemovals(hunk, revert) ==
    IF revert THEN LinesOfType(hunk.lines, "+") ELSE LinesOfType(hunk.lines, "-")

AnchorAdditions(hunk, revert) ==
    IF revert THEN LinesOfType(hunk.lines, "-") ELSE LinesOfType(hunk.lines, "+")

\* variant: every removal text is searched up to the end of the content
AfterAnchorRemovalsToEnd(content, hunk, anchor_line, revert) ==
    LET removals == AnchorRemovals(hunk, revert)
        search_end == Len(content)
        removal_indices ==
            IF removals # <<>>
            THEN RemovalIndices(content, removals, anchor_line, search_end, <<>>)
            ELSE <<>>
    IN  PopAll(content, SortDesc(removal_indices, <<>>))

\* the content after the deletions of _perform_anchor_changes
AfterAnchorRemovals(content, hunk, anchor_line, revert) ==
    LET removals == AnchorRemovals(hunk, revert)
        search_end == Min(Len(content), anchor_line + Len(removals) * 2)
        removal_indices ==
            IF removals # <<>>
            THEN RemovalIndices(content, removals, anchor_line, search_end, <<>>)
            ELSE <<>>
    IN  PopAll(content, SortDesc(removal_indices, <<>>))

\* variant: the additions go after the anchor line, from index anchor_line + 1
PerformAnchorChangesAfterLine(content, hunk, anchor_line, revert) ==
    InsertAdditions(AfterAnchorRemovals(content, hunk, anchor_line, revert),
                    AnchorAdditions(hunk, revert), anchor_line + 1)

\* _perform_anchor_changes: the content after the hunk (it always returns True)
PerformAnchorChanges(content, hunk, anchor_line, revert) ==
    InsertAdditions(AfterAnchorRemovals(content, hunk, anchor_line, revert),
                    AnchorAdditions(hunk, revert), anchor_line)

\* `not hunk.anchor`
AnchorMissing(hunk) == hunk.anchor = NoAnchor \/ hunk.anchor = <<>>

\* what ui.disambiguate_anchor can answer: one of the matches, None, or an
\* exception (input() raising EOFError is not caught by the prompt loop)
PortCancel == "cancel"
PortRaise == "raise"
PortReplies(matches) ==
    {[kind |-> "index", index |-> matches[k]] : k \in 1..Len(matches)}
    \cup {[kind |-> PortCancel, index |-> NoIndex], [kind |-> PortRaise, index |-> NoIndex]}

\* variant: several matches are resolved to the first one without asking the port
ApplyAnchorHunkFirstMatch(content, hunk, revert, reply, missing, notfound) ==
    LET matches == FindAnchorMatches(content, hunk.anchor)
        base == [ok |-> FALSE, raised |-> FALSE, content |-> content, warnings |-> <<>>,
                 target_line |-> NoIndex, matches |-> <<>>, calls |-> <<>>]
    IN  IF AnchorMissing(hunk)
        THEN [base EXCEPT !.warnings = <<missing>>]
        ELSE IF Len(matches) = 0
        THEN [base EXCEPT !.warnings = <<notfound>>]
        ELSE [base EXCEPT !.ok = TRUE, !.matches = matches, !.target_line = matches[1],
                          !.content = PerformAnchorChanges(content, hunk, matches[1], revert)]

\* variant: a None from the port is not tested, and the hunk is applied at the
\* first match
ApplyAnchorHunkIgnoringCancel(content, hunk, revert, reply, missing, notfound) ==
    LET matches == FindAnchorMatches(content, hunk.anchor)
        base == [ok |-> FALSE, raised |-> FALSE, content |-> content, warnings |-> <<>>,
                 target_line |-> NoIndex, matches |-> <<>>, calls |-> <<>>]
        target_line == IF reply.kind = "index" THEN reply.index ELSE matches[1]
    IN  IF AnchorMissing(hunk)
        THEN [base EXCEPT !.warnings = <<missing>>]
        ELSE IF Len(matches) = 0
        THEN [base EXCEPT !.warnings = <<notfound>>]
        ELSE IF Len(matches) = 1
        THEN [base EXCEPT !.ok = TRUE, !.matches = matches, !.target_line = matches[1],
                          !.content = PerformAnchorChanges(content, hunk, matches[1], revert)]
        ELSE IF reply.kind = PortRaise
        THEN [base EXCEPT !.raised = TRUE, !.matches = matches, !.calls = <<matches>>]
        ELSE [base EXCEPT !.ok = TRUE, !.matches = matches, !.calls = <<matches>>,
                          !.target_line = target_line,
                          !.content = PerformAnchorChanges(content, hunk, target_line, revert)]

\* _apply_explicit_anchor_hunk and _apply_implicit_anchor_hunk differ only in
\* the warning texts: [ok, raised, content, warnings, target_line, matches, calls],
\* calls being the match lists ui.disambiguate_anchor was called with
ApplyAnchorHunk(content, hunk, revert, reply, missing, notfound) ==
    LET matches == FindAnchorMatches(content, hunk.anchor)
        base == [ok |-> FALSE, raised |-> FALSE, content |-> content, warnings |-> <<>>,
                 target_line |-> NoIndex, matches |-> <<>>, calls |-> <<>>]
    IN  IF AnchorMissing(hunk)
        THEN [base EXCEPT !.warnings = <<missing>>]
        ELSE IF Len(matches) = 0
        THEN [base EXCEPT !.warnings = <<notfound>>]
        ELSE IF Len(matches) = 1
        THEN [base EXCEPT !.ok = TRUE, !.matches = matches, !.target_line = matches[1],
                          !.content = PerformAnchorChanges(content, hunk, matches[1], revert)]
        ELSE IF reply.kind = PortRaise
        THEN [base EXCEPT !.raised = TRUE, !.matches = matches, !.calls = <<matches>>]
        ELSE IF reply.kind = PortCancel
        THEN [base EXCEPT !.warnings = <<"cancelled">>, !.matches = matches,
                          !.calls = <<matches>>]
        ELSE [base EXCEPT !.ok = TRUE, !.matches = matches, !.calls = <<matches>>,
                          !.target_line = reply.index,
                          !.content = PerformAnchorChanges(content, hunk, reply.index, revert)]

ApplyExplicitAnchorHunk(content, hunk, revert, reply) ==
    ApplyAnchorHunk(content, hunk, revert, reply, "anchor_missing", "anchor_not_found")

ApplyImplicitAnchorHunk(content, hunk, revert, reply) ==
    ApplyAnchorHunk(content, hunk, revert, reply, "implicit_anchor_missing",
                    "implicit_anchor_not_found")

\* ------------------------------------------------------------ PatchParser
AT == "@"
Digits == <<"0", "1", "2", "3", "4", "5", "6", "7", "8", "9">>
IsDigit(c) == \E d \in 1..10 : Digits[d] = c
DigitValue(c) == (CHOOSE d \in 1..10 : Digits[d] = c) - 1

\* number of leading characters of s that are whitespace: what \s* consumes
RECURSIVE SpaceRun(_)
SpaceRun(s) == IF Len(s) > 0 /\ IsSpace(s[1]) THEN 1 + SpaceRun(Tail(s)) ELSE 0

\* number of leading characters of s that are digits: what \d+ consumes
RECURSIVE DigitRun(_)
DigitRun(s) == IF Len(s) > 0 /\ IsDigit(s[1]) THEN 1 + DigitRun(Tail(s)) ELSE 0

\* int() of a run of digits
RECURSIVE IntOf(_, _)
IntOf(s, acc) == IF s = <<>> THEN acc ELSE IntOf(Tail(s), acc * 10 + DigitValue(Head(s)))

Drop(s, n) == SubSeq(s, n + 1, Len(s))

\* -(\d+)(?:,(\d+))? or \+(\d+)(?:,(\d+))? at the head of s, sign being - or +:
\* [ok, start, count, rest]; a missing count is reported as NoIndex
RangeAt(s, sign) ==
    LET after_sign == Drop(s, 1)
        n1 == DigitRun(after_sign)
        after_start == Drop(after_sign, n1)
        has_count == Len(after_start) > 1 /\ after_start[1] = ","
                         /\ IsDigit(after_start[2])
        n2 == IF has_count THEN DigitRun(Drop(after_start, 1)) ELSE 0
    IN  IF Len(s) = 0 \/ s[1] # sign \/ n1 = 0
        THEN [ok |-> FALSE, start |-> NoIndex, count |-> NoIndex, rest |-> <<>>]
        ELSE [ok |-> TRUE,
              start |-> IntOf(SubSeq(after_sign, 1, n1), 0),
              count |-> IF has_count THEN IntOf(SubSeq(after_start, 2, n2 + 1), 0)
                        ELSE NoIndex,
              rest |-> IF has_count THEN Drop(after_start, n2 + 1) ELSE after_start]

\* UNIFIED_HEADER_RE.match(line): [ok, and the four groups]
UnifiedHeaderMatch(line) ==
    LET s1 == Drop(line, 2)
        old == RangeAt(Drop(s1, SpaceRun(s1)), "-")
        s2 == Drop(old.rest, SpaceRun(old.rest))
        new == RangeAt(s2, "+")
        s3 == Drop(new.rest, SpaceRun(new.rest))
    IN  IF StartsWith(line, <<AT, AT>>) /\ old.ok /\ new.ok /\ StartsWith(s3, <<AT, AT>>)
        THEN [ok |-> TRUE, g1 |-> old.start, g2 |-> old.count,
              g3 |-> new.start, g4 |-> new.count]
        ELSE [ok |-> FALSE, g1 |-> NoIndex, g2 |-> NoIndex, g3 |-> NoIndex, g4 |-> NoIndex]

\* EXPLICIT_ANCHOR_RE.match(line): @@, one or more whitespace characters, then
\* one or more characters of any kind; group 1 is what \s+ leaves after giving
\* back at most one character
ExplicitAnchorMatch(line) ==
    LET rest == Drop(line, 2)
        run == SpaceRun(rest)
        taken == IF run = Len(rest) THEN run - 1 ELSE run
    IN  IF StartsWith(line, <<AT, AT>>) /\ Len(rest) >= 2 /\ run >= 1
        THEN [ok |-> TRUE, g1 |-> Drop(rest, taken)]
        ELSE [ok |-> FALSE, g1 |-> <<>>]

\* IMPLICIT_ANCHOR_RE.match(line)
ImplicitAnchorMatch(line) ==
    StartsWith(line, <<AT, AT>>) /\ SpaceRun(Drop(line, 2)) = Len(line) - 2

IsFileHeader(line) == StartsWith(line, <<"-", "-", "-">>) \/ StartsWith(line, <<"+", "+", "+">>)

\* _find_next_non_empty
RECURSIVE FindNextNonEmpty(_, _)
FindNextNonEmpty(lines, start_idx) ==
    IF start_idx >= Len(lines) THEN NoIndex
    ELSE IF Strip(lines[start_idx + 1]) # <<>> THEN start_idx
    ELSE FindNextNonEmpty(lines, start_idx + 1)

\* the classification of one body line
ClassifyLine(line) ==
    IF Len(line) = 0 THEN [type |-> " ", content |-> <<>>]
    ELSE IF line[1] \in {" ", "-", "+", "\\"} THEN [type |-> line[1], content |-> Tail(line)]
    ELSE [type |-> " ", content |-> line]

\* variant: a blank line before a header ends the body even when it is the
\* first body line
RECURSIVE ExtractFromBlankFirst(_, _, _)
ExtractFromBlankFirst(lines, idx, hunk_lines) ==
    IF idx >= Len(lines) THEN <<hunk_lines, idx>>
    ELSE LET line == lines[idx + 1]
             next_non_empty == FindNextNonEmpty(lines, idx + 1)
         IN  IF StartsWith(line, <<AT, AT>>) THEN <<hunk_lines, idx>>
             ELSE IF IsFileHeader(line) THEN <<hunk_lines, idx>>
             ELSE IF /\ Strip(line) = <<>>
                     /\ next_non_empty # NoIndex
                     /\ StartsWith(lines[next_non_empty + 1], <<AT, AT>>)
                  THEN <<hunk_lines, idx>>
             ELSE ExtractFromBlankFirst(lines, idx + 1,
                                        Append(hunk_lines, ClassifyLine(line)))

\* _extract_hunk_lines: the pair (hunk_lines, next index)
RECURSIVE ExtractFrom(_, _, _)
ExtractFrom(lines, idx, hunk_lines) ==
    IF idx >= Len(lines) THEN <<hunk_lines, idx>>
    ELSE LET line == lines[idx + 1]
             next_non_empty == FindNextNonEmpty(lines, idx + 1)
         IN  IF StartsWith(line, <<AT, AT>>) THEN <<hunk_lines, idx>>
             ELSE IF IsFileHeader(line) THEN <<hunk_lines, idx>>
             ELSE IF /\ Strip(line) = <<>>
                     /\ Len(hunk_lines) > 0
                     /\ next_non_empty # NoIndex
                     /\ StartsWith(lines[next_non_empty + 1], <<AT, AT>>)
                  THEN <<hunk_lines, idx>>
             ELSE ExtractFrom(lines, idx + 1, Append(hunk_lines, ClassifyLine(line)))

ExtractHunkLines(lines, start_idx) == ExtractFrom(lines, start_idx, <<>>)

\* the loop of _looks_like_unified_without_offsets: a remove line, then an add line
RECURSIVE FoundTransition(_, _)
FoundTransition(hunk_lines, in_removals) ==
    IF hunk_lines = <<>> THEN FALSE
    ELSE IF Head(hunk_lines).type = "-" THEN FoundTransition(Tail(hunk_lines), TRUE)
    ELSE IF Head(hunk_lines).type = "+" /\ in_removals THEN TRUE
    ELSE FoundTransition(Tail(hunk_lines), in_removals)

\* _looks_like_unified_without_offsets, on a list of HunkLine
LooksLikeUnifiedWithoutOffsets(hunk_lines) ==
    IF Len(hunk_lines) < 2 THEN FALSE
    ELSE IF ~(/\ \E k \in 1..Len(hunk_lines) : hunk_lines[k].type = "-"
              /\ \E k \in 1..Len(hunk_lines) : hunk_lines[k].type = "+")
    THEN FALSE
    ELSE FoundTransition(hunk_lines, FALSE)

\* the call of _looks_like_unified_without_offsets that _parse_hunk makes: it
\* passes the pair that _extract_hunk_lines returns, not the list in it.  The
\* pair has two items, so the length test lets it through, and the first
\* generator reads .type of its first item, which is a list: AttributeError.
HeuristicCall(extracted) ==
    IF Len(extracted) < 2
    THEN [raised |-> FALSE, value |-> FALSE]
    ELSE [raised |-> TRUE, value |-> FALSE]

\* the anchor _parse_implicit_anchor_hunk derives: the remove lines met before
\* the first add line, newline-joined; None when there is none
RECURSIVE LeadingRemoves(_)
LeadingRemoves(lines) ==
    IF lines = <<>> THEN <<>>
    ELSE IF Head(lines).type = "-"
         THEN <<Head(lines).content>> \o LeadingRemoves(Tail(lines))
         ELSE IF Head(lines).type = "+" THEN <<>>
         ELSE LeadingRemoves(Tail(lines))

ImplicitAnchor(lines) ==
    IF LeadingRemoves(lines) # <<>> THEN Join(LeadingRemoves(lines)) ELSE NoAnchor

NoParsedHunk == [type |-> "none"]

ParsedHunk(type, header, hunk_lines, old_start, old_count, new_start, new_count, anchor) ==
    [type |-> type, header |-> header, lines |-> hunk_lines, old_start |-> old_start,
     old_count |-> old_count, new_start |-> new_start, new_count |-> new_count,
     anchor |-> anchor]

\* _parse_unified_hunk
ParseUnifiedHunk(lines, start_idx, m) ==
    LET ex == ExtractHunkLines(lines, start_idx + 1)
    IN  [raised |-> FALSE, next |-> ex[2],
         hunk |-> ParsedHunk("unified", lines[start_idx + 1], ex[1], m.g1,
                             IF m.g2 # NoIndex THEN m.g2 ELSE 1, m.g3,
                             IF m.g4 # NoIndex THEN m.g4 ELSE 1, NoAnchor)]

\* _parse_explicit_anchor_hunk
ParseExplicitAnchorHunk(lines, start_idx, m) ==
    LET ex == ExtractHunkLines(lines, start_idx + 1)
    IN  [raised |-> FALSE, next |-> ex[2],
         hunk |-> ParsedHunk("explicit_anchor", lines[start_idx + 1], ex[1], NoIndex,
                             NoIndex, NoIndex, NoIndex, Strip(m.g1))]

\* _parse_implicit_anchor_hunk
ParseImplicitAnchorHunk(lines, start_idx) ==
    LET ex == ExtractHunkLines(lines, start_idx + 1)
    IN  [raised |-> FALSE, next |-> ex[2],
         hunk |-> ParsedHunk("implicit_anchor", lines[start_idx + 1], ex[1], NoIndex,
                             NoIndex, NoIndex, NoIndex, ImplicitAnchor(ex[1]))]

\* _parse_unified_hunk_auto
ParseUnifiedHunkAuto(lines, start_idx, hunk_lines) ==
    [raised |-> FALSE, next |-> start_idx + 1 + Len(hunk_lines),
     hunk |-> ParsedHunk("unified", lines[start_idx + 1], hunk_lines, 1,
                         Len(LinesOfType(hunk_lines, " ")) + Len(LinesOfType(hunk_lines, "-")),
                         1,
                         Len(LinesOfType(hunk_lines, " ")) + Len(LinesOfType(hunk_lines, "+")),
                         NoAnchor)]

\* _parse_hunk: [raised, hunk or NoParsedHunk, next index]
ParseHunk(lines, start_idx) ==
    LET header_line == lines[start_idx + 1]
        unified_match == UnifiedHeaderMatch(header_line)
        explicit_anchor_match == ExplicitAnchorMatch(header_line)
        hunk_lines == ExtractHunkLines(lines, start_idx + 1)
        looks == HeuristicCall(hunk_lines)
    IN  IF start_idx >= Len(lines)
        THEN [raised |-> FALSE, hunk |-> NoParsedHunk, next |-> start_idx + 1]
        ELSE IF unified_match.ok
        THEN ParseUnifiedHunk(lines, start_idx, unified_match)
        ELSE IF explicit_anchor_match.ok
        THEN ParseExplicitAnchorHunk(lines, start_idx, explicit_anchor_match)
        ELSE IF ImplicitAnchorMatch(header_line)
        THEN ParseImplicitAnchorHunk(lines, start_idx)
        ELSE IF looks.raised
        THEN [raised |-> TRUE, hunk |-> NoParsedHunk, next |-> start_idx]
        ELSE IF looks.value
        THEN ParseUnifiedHunkAuto(lines, start_idx, hunk_lines)
        ELSE [raised |-> FALSE, hunk |-> NoParsedHunk, next |-> start_idx + 1]

\* ---------------------------------------------------------------- inputs
\* line texts of the target file and of the patch body
ContentTexts == {<<SP, "b">>, <<"a", "b">>}
HunkTexts == {<<SP, "b">>, <<"a", "b">>}
HunkLineTypes == {" ", "-", "+"}

SeqsUpTo(S, n) == UNION {[1..k -> S] : k \in 0..n}

\* a file as read_target_file returns it: every line ends with a terminator,
\* except possibly the last one
Contents ==
    {[k \in 1..Len(c) |-> Append(c[k], NL)] : c \in SeqsUpTo(ContentTexts, MaxLines)}
    \cup {[k \in 1..Len(c) |-> IF k = Len(c) THEN c[k] ELSE Append(c[k], NL)] :
              c \in SeqsUpTo(ContentTexts, MaxLines) \ {<<>>}}

HunkLines == [type : HunkLineTypes, content : HunkTexts]
HunkBodies == SeqsUpTo(HunkLines, MaxHunkLines)

\* the hunks the parser can hand to apply_hunks
OldStarts == 1..MaxLines
ExplicitAnchors == {<<"b">>, <<"a", "b">>, <<>>}

UnifiedHunks ==
    {[type |-> "unified", lines |-> ls, old_start |-> o, anchor |-> NoAnchor] :
         ls \in HunkBodies, o \in OldStarts}

ExplicitAnchorHunks ==
    {[type |-> "explicit_anchor", lines |-> ls, old_start |-> NoIndex, anchor |-> a] :
         ls \in HunkBodies, a \in ExplicitAnchors}

ImplicitAnchorHunks ==
    {[type |-> "implicit_anchor", lines |-> ls, old_start |-> NoIndex,
      anchor |-> ImplicitAnchor(ls)] : ls \in HunkBodies}

NoHunk == [type |-> "none", lines |-> <<>>, old_start |-> NoIndex, anchor |-> NoAnchor]

\* ------------------------------------------------------- apply_hunks: state
VARIABLES
    content,            \* the list the caller passes
    revert,             \* PatchApplier.revert
    modified_content,   \* the working copy
    results,            \* applied, failed, warnings
    nhunks,             \* length of the list of hunks the caller passes
    i,                  \* number of hunks the loop has taken from the input
    hunk,               \* the loop variable, during its iteration
    pc,                 \* "loop" at the loop head, "body" at the end of an
                        \* iteration, "done" after the return
    prev_content,       \* history: modified_content before the current hunk
    last,               \* history: how the attempt of the current hunk ended
    log                 \* history: index, type and outcome of every hunk attempted

applier_vars == <<content, revert, nhunks, modified_content, results, i, hunk, pc,
                  prev_content, last, log>>

\* parse_patch: state
VARIABLES
    patch_lines,        \* patch_content.splitlines()
    parsed,             \* the list hunks being built
    scan,               \* the index i of the scan
    parser_pc           \* "scan" in the loop, "returned", or "raised" when an
                        \* exception leaves parse_patch

parser_vars == <<patch_lines, parsed, scan, parser_pc>>

\* PatchApplication.run: state
VARIABLES
    run_pc,             \* "start" after the patch is parsed, "apply" during
                        \* apply_hunks, "exit" after the return of run
    is_dir,             \* target_file.is_dir()
    exit_code,          \* the value run returns
    written             \* the text written to the target file

run_vars == <<run_pc, is_dir, exit_code, written>>

vars == <<applier_vars, parser_vars, run_vars>>

\* nothing has been written to the target file
NotWritten == <<"None">>

\* no call of run in progress
RunIdle ==
    /\ run_pc = "idle"
    /\ is_dir = FALSE
    /\ exit_code = NoIndex
    /\ written = NotWritten

\* no call of parse_patch in progress
ParserIdle ==
    /\ patch_lines = <<>>
    /\ parsed = <<>>
    /\ scan = 0
    /\ parser_pc = "idle"

NoReply == [kind |-> "none", index |-> NoIndex]

NoAttempt == [ok |-> FALSE, raised |-> FALSE, target_line |-> NoIndex, matches |-> <<>>,
              calls |-> <<>>, reply |-> NoReply]

Init ==
    /\ content \in Contents
    /\ revert \in BOOLEAN
    /\ nhunks \in 0..MaxHunks
    /\ modified_content = content
    /\ results = [applied |-> 0, failed |-> 0, warnings |-> <<>>]
    /\ i = 0
    /\ hunk = NoHunk
    /\ pc = "loop"
    /\ prev_content = content
    /\ last = NoAttempt
    /\ log = <<>>
    /\ ParserIdle
    /\ RunIdle

\* variant: the except clause counts the hunk and records no warning
AccountSilentError(res, r) ==
    IF r.raised
    THEN [res EXCEPT !.failed = @ + 1]
    ELSE IF r.ok
    THEN [res EXCEPT !.applied = @ + 1, !.warnings = @ \o r.warnings]
    ELSE [res EXCEPT !.failed = @ + 1, !.warnings = @ \o r.warnings]

\* the try/except of the loop body: the counts and warnings after a hunk whose
\* attempt ended as r
Account(res, r) ==
    IF r.raised
    THEN [res EXCEPT !.failed = @ + 1, !.warnings = Append(@, "error")]
    ELSE IF r.ok
    THEN [res EXCEPT !.applied = @ + 1, !.warnings = @ \o r.warnings]
    ELSE [res EXCEPT !.failed = @ + 1, !.warnings = @ \o r.warnings]

\* a unified hunk whose header declares a start that is used as it is
DeclaredStart(h) == h.type = "unified" /\ h.old_start # NoIndex /\ h.old_start > 1

\* variant: an exception in the body of the loop ends the loop
AfterAttemptAborting(r) == IF r.raised THEN "done" ELSE "body"

\* where control goes after the attempt of a hunk: the except clause swallows
\* the exception, so the loop always reaches the end of its body
AfterAttempt(r) == "body"

\* variant: the loop works on the caller's list itself
CallerListAliased(c, m) == m

\* modified_content = content.copy(): the caller's list c after an iteration
\* that left the working copy as m
CallerList(c, m) == c

\* one iteration of the loop of apply_hunks on hunk h, whose attempt ended as r
Iterate(h, r, reply) ==
    /\ hunk' = h
    /\ prev_content' = modified_content
    /\ modified_content' = r.content
    /\ results' = Account(results, r)
    /\ i' = i + 1
    /\ last' = [ok |-> r.ok, raised |-> r.raised, target_line |-> r.target_line,
                matches |-> r.matches, calls |-> r.calls, reply |-> reply]
    /\ log' = Append(log, [index |-> i, type |-> h.type, declared |-> DeclaredStart(h),
                           outcome |-> IF r.raised THEN "error"
                                       ELSE IF r.ok THEN "applied" ELSE "failed"])
    /\ pc' = AfterAttempt(r)
    /\ content' = CallerList(content, r.content)
    /\ UNCHANGED <<revert, nhunks>>
    /\ UNCHANGED <<parser_vars, run_vars>>

\* the port is asked only when the anchor has several matches
Replies(h) ==
    IF AnchorMissing(h) \/ Len(FindAnchorMatches(modified_content, h.anchor)) < 2
    THEN {NoReply}
    ELSE PortReplies(FindAnchorMatches(modified_content, h.anchor))

ApplyUnified ==
    /\ pc = "loop"
    /\ i < nhunks
    /\ \E h \in UnifiedHunks :
           LET u == ApplyUnifiedHunk(modified_content, h, revert)
               r == [ok |-> u.ok, raised |-> FALSE, content |-> u.content,
                     warnings |-> u.warnings, target_line |-> u.target_line,
                     matches |-> <<>>, calls |-> <<>>]
           IN  Iterate(h, r, NoReply)

ApplyExplicitAnchor ==
    /\ pc = "loop"
    /\ i < nhunks
    /\ \E h \in ExplicitAnchorHunks :
           \E reply \in Replies(h) :
               Iterate(h, ApplyExplicitAnchorHunk(modified_content, h, revert, reply), reply)

ApplyImplicitAnchor ==
    /\ pc = "loop"
    /\ i < nhunks
    /\ \E h \in ImplicitAnchorHunks :
           \E reply \in Replies(h) :
               Iterate(h, ApplyImplicitAnchorHunk(modified_content, h, revert, reply), reply)

\* back to the loop head: the locals of the finished iteration are dead
NextHunk ==
    /\ pc = "body"
    /\ pc' = "loop"
    /\ hunk' = NoHunk
    /\ prev_content' = modified_content
    /\ last' = NoAttempt
    /\ UNCHANGED <<content, revert, nhunks, modified_content, results, i, log>>
    /\ UNCHANGED <<parser_vars, run_vars>>

\* the input is exhausted: apply_hunks returns (modified_content, results)
Return ==
    /\ pc = "loop"
    /\ i = nhunks
    /\ pc' = "done"
    /\ UNCHANGED <<content, revert, nhunks, modified_content, results, i, hunk, prev_content,
                   last, log>>
    /\ UNCHANGED <<parser_vars, run_vars>>

Next == ApplyUnified \/ ApplyExplicitAnchor \/ ApplyImplicitAnchor \/ NextHunk \/ Return

Spec == Init /\ [][Next]_vars

\* ------------------------------------------------------ parse_patch: machine
\* lines of a patch: headers of each kind, file headers and body lines
PatchLinePool ==
    { <<AT, AT, SP, "-", "2", ",", "1", SP, "+", "2", SP, AT, AT>>,  \* @@ -2,1 +2 @@
      <<AT, AT, SP, "b">>,                                           \* @@ b
      <<AT, AT, SP, SP>>,                                            \* @@ and two spaces
      <<AT, AT>>,                                                    \* @@
      <<AT, AT, "b">>,                                               \* @@b
      <<"-", "-", "-", SP, "b">>,                                    \* --- b
      <<"-", "a", "b">>,                                             \* -ab
      <<"+", SP, "b">>,                                              \* + b
      <<SP, "a", "b">>,                                              \*  ab
      <<"a", "b">>,                                                  \* ab
      <<>> }                                                         \* a blank line

\* no call of apply_hunks in progress
ApplierIdle ==
    /\ content = <<>>
    /\ revert = FALSE
    /\ nhunks = 0
    /\ modified_content = <<>>
    /\ results = [applied |-> 0, failed |-> 0, warnings |-> <<>>]
    /\ i = 0
    /\ hunk = NoHunk
    /\ pc = "idle"
    /\ prev_content = <<>>
    /\ last = NoAttempt
    /\ log = <<>>

ParseInit ==
    /\ patch_lines \in SeqsUpTo(PatchLinePool, MaxPatchLines)
    /\ parsed = <<>>
    /\ scan = 0
    /\ parser_pc = "scan"
    /\ ApplierIdle
    /\ RunIdle

\* a --- or +++ line is skipped
SkipFileHeader ==
    /\ parser_pc = "scan"
    /\ scan < Len(patch_lines)
    /\ IsFileHeader(patch_lines[scan + 1])
    /\ scan' = scan + 1
    /\ UNCHANGED <<patch_lines, parsed, parser_pc>>
    /\ UNCHANGED <<applier_vars, run_vars>>

\* a line that starts with @@ is handed to _parse_hunk
ParseHunkAt ==
    /\ parser_pc = "scan"
    /\ scan < Len(patch_lines)
    /\ ~IsFileHeader(patch_lines[scan + 1])
    /\ StartsWith(patch_lines[scan + 1], <<AT, AT>>)
    /\ LET r == ParseHunk(patch_lines, scan)
       IN  IF r.raised
           THEN parser_pc' = "raised" /\ UNCHANGED <<parsed, scan>>
           ELSE /\ parsed' = IF r.hunk.type # "none" THEN Append(parsed, r.hunk) ELSE parsed
                /\ scan' = r.next
                /\ UNCHANGED parser_pc
    /\ UNCHANGED patch_lines
    /\ UNCHANGED <<applier_vars, run_vars>>

\* any other line is passed over
SkipLine ==
    /\ parser_pc = "scan"
    /\ scan < Len(patch_lines)
    /\ ~IsFileHeader(patch_lines[scan + 1])
    /\ ~StartsWith(patch_lines[scan + 1], <<AT, AT>>)
    /\ scan' = scan + 1
    /\ UNCHANGED <<patch_lines, parsed, parser_pc>>
    /\ UNCHANGED <<applier_vars, run_vars>>

\* the scan is over: parse_patch returns hunks
ParseReturn ==
    /\ parser_pc = "scan"
    /\ scan >= Len(patch_lines)
    /\ parser_pc' = "returned"
    /\ UNCHANGED <<patch_lines, parsed, scan>>
    /\ UNCHANGED <<applier_vars, run_vars>>

ParseNext == SkipFileHeader \/ ParseHunkAt \/ SkipLine \/ ParseReturn

SpecParse == ParseInit /\ [][ParseNext]_vars

\* ------------------------------------------- PatchApplication.run: machine
\* for line in content: f.write(line), on the str that run passes: every
\* element of the text is written in order
RECURSIVE WriteTargetFile(_)
WriteTargetFile(text) ==
    IF text = <<>> THEN <<>>
    ELSE <<Head(text)>> \o WriteTargetFile(Tail(text))

\* run after the target and the patch are read and the patch is parsed into
\* nhunks hunks; the target is not a Python file, so that step 5 does nothing
RunInit ==
    /\ is_dir \in BOOLEAN
    /\ content \in (IF is_dir THEN {<<>>} ELSE Contents)
    /\ revert \in BOOLEAN
    /\ nhunks \in 0..MaxHunks
    /\ modified_content = content
    /\ results = [applied |-> 0, failed |-> 0, warnings |-> <<>>]
    /\ i = 0
    /\ hunk = NoHunk
    /\ pc = "idle"
    /\ prev_content = content
    /\ last = NoAttempt
    /\ log = <<>>
    /\ ParserIdle
    /\ run_pc = "start"
    /\ exit_code = NoIndex
    /\ written = NotWritten

\* `if not hunks`: no hunk was parsed, run returns 1
RunNoHunks ==
    /\ run_pc = "start"
    /\ nhunks = 0
    /\ run_pc' = "exit"
    /\ exit_code' = 1
    /\ UNCHANGED <<applier_vars, parser_vars, is_dir, written>>

\* directory mode: hunk.file_path is read on the first hunk; Hunk has no such
\* attribute, the AttributeError is caught by `except Exception` and run
\* returns 1
RunDirectory ==
    /\ run_pc = "start"
    /\ nhunks > 0
    /\ is_dir
    /\ run_pc' = "exit"
    /\ exit_code' = 1
    /\ UNCHANGED <<applier_vars, parser_vars, is_dir, written>>

\* single-file mode: apply_hunks is called on the content read
RunSingleFile ==
    /\ run_pc = "start"
    /\ nhunks > 0
    /\ ~is_dir
    /\ run_pc' = "apply"
    /\ pc' = "loop"
    /\ UNCHANGED <<content, revert, nhunks, modified_content, results, i, hunk,
                   prev_content, last, log>>
    /\ UNCHANGED <<parser_vars, is_dir, exit_code, written>>

\* apply_hunks has returned with a hunk applied and the user confirms: the
\* list is joined with "\n" and handed to write_target_file, which succeeds
\* or not
RunSave ==
    /\ run_pc = "apply"
    /\ pc = "done"
    /\ results.applied > 0
    /\ \E write_ok \in BOOLEAN :
           IF write_ok
           THEN written' = WriteTargetFile(Join(modified_content)) /\ exit_code' = 0
           ELSE written' = written /\ exit_code' = 1
    /\ run_pc' = "exit"
    /\ UNCHANGED <<applier_vars, parser_vars, is_dir>>

\* apply_hunks has returned with a hunk applied and the user declines
RunDiscard ==
    /\ run_pc = "apply"
    /\ pc = "done"
    /\ results.applied > 0
    /\ run_pc' = "exit"
    /\ exit_code' = 0
    /\ UNCHANGED <<applier_vars, parser_vars, is_dir, written>>

\* apply_hunks has returned with no hunk applied
RunNothingApplied ==
    /\ run_pc = "apply"
    /\ pc = "done"
    /\ results.applied = 0
    /\ run_pc' = "exit"
    /\ exit_code' = 0
    /\ UNCHANGED <<applier_vars, parser_vars, is_dir, written>>

RunNext ==
    \/ RunNoHunks \/ RunDirectory \/ RunSingleFile
    \/ ApplyUnified \/ ApplyExplicitAnchor \/ ApplyImplicitAnchor \/ NextHunk \/ Return
    \/ RunSave \/ RunDiscard \/ RunNothingApplied

SpecRun == RunInit /\ [][RunNext]_vars

\* ------------------------------------------------------------ properties
\* a content with the trailing terminators dropped, for comparing line texts
Stripped(c) == [k \in 1..Len(c) |-> RStripNL(c[k])]

IsOldLine(l) == l.type \in {" ", "-"}
IsNewLine(l) == l.type \in {" ", "+"}
IsContextLine(l) == l.type = " "
Texts(ls) == [k \in 1..Len(ls) |-> ls[k].content]

\* the block a unified hunk expects, and the block it leaves
OldBlock(h) == Texts(SelectSeq(h.lines, IsOldLine))
NewBlock(h) == Texts(SelectSeq(h.lines, IsNewLine))

\* the context and remove lines of h equal the lines of c from index t on
MatchesAt(c, h, t) ==
    /\ t >= 0
    /\ t + Len(OldBlock(h)) <= Len(c)
    /\ \A k \in 1..Len(OldBlock(h)) : RStripNL(c[t + k]) = OldBlock(h)[k]

\* c with the old block of h at index t replaced by its new block
Replaced(c, h, t) ==
    Stripped(SubSeq(c, 1, t)) \o NewBlock(h)
        \o Stripped(SubSeq(c, t + Len(OldBlock(h)) + 1, Len(c)))

AtUnified == pc = "body" /\ hunk.type = "unified"
AtAnchor == pc = "body" /\ hunk.type \in {"explicit_anchor", "implicit_anchor"}
Outcome == log[Len(log)].outcome

\* C1: a unified hunk applied without revert whose declared start is right
\* (its context and remove lines match the content at index old_start - 1)
\* is counted as applied and leaves the content with the old block replaced
\* by its context and add lines, in hunk order.
C1_UnifiedReplacesBlock ==
    (/\ AtUnified /\ ~revert
     /\ DeclaredStart(hunk)
     /\ hunk.lines # <<>>
     /\ MatchesAt(prev_content, hunk, hunk.old_start - 1))
        => /\ Outcome = "applied"
           /\ Stripped(modified_content) = Replaced(prev_content, hunk, hunk.old_start - 1)

\* C3: every hunk is attempted once, in input order, whatever happened to the
\* earlier ones; applied + failed is the number of hunks processed so far, and
\* at the return the number of input hunks.
C3_EveryHunkCounted ==
    /\ Len(log) = i
    /\ \A k \in 1..Len(log) : log[k].index = k - 1
    /\ results.applied + results.failed = i
    /\ results.applied = Cardinality({k \in 1..Len(log) : log[k].outcome = "applied"})
    /\ pc = "done" => i = nhunks

C3_Witness ==
    /\ pc = "done"
    /\ nhunks = 2
    /\ log[1].outcome = "error"
    /\ log[2].outcome = "applied"
    /\ results.applied = 1
    /\ results.failed = 1

\* C4: a hunk counted as failed leaves the working content as it was before it.
C4_FailedHunkLeavesContent ==
    (pc = "body" /\ Outcome \in {"failed", "error"}) => modified_content = prev_content

C4_Witness ==
    /\ pc = "body"
    /\ i = 2
    /\ log[1].outcome = "applied"
    /\ Outcome = "failed"
    /\ results.warnings = <<"context_mismatch">>
    /\ \E k \in 1..Len(hunk.lines) : hunk.lines[k].type = "+"
    /\ modified_content = prev_content
    /\ modified_content # content

\* C5: when the first of two unified hunks with declared starts changes the
\* number of lines above the target of the second, the target of the second
\* follows the shift: it is not its original-numbering index old_start - 1.
C5_SecondHunkFollowsShift ==
    LET t == hunk.old_start - 1
        d == Len(prev_content) - Len(content)
    IN  (/\ AtUnified /\ ~revert /\ i = 2
         /\ log[1].declared /\ log[1].outcome = "applied"
         /\ DeclaredStart(hunk)
         /\ d # 0
         /\ t <= Len(content)
         /\ t + d >= 0
         /\ SubSeq(content, t + 1, Len(content))
                = SubSeq(prev_content, t + d + 1, Len(prev_content))
         /\ OldBlock(hunk) # <<>>
         /\ MatchesAt(content, hunk, t))
        => last.target_line = t + d

\* C6: a unified hunk of add and remove lines only that applies to a content
\* is undone by applying it with revert to the result.
C6_RevertRoundTrip ==
    (/\ AtUnified /\ ~revert /\ Outcome = "applied"
     /\ hunk.lines # <<>>
     /\ \A k \in 1..Len(hunk.lines) : hunk.lines[k].type \in {"-", "+"}
     /\ last.target_line <= Len(prev_content))
        => LET back == ApplyUnifiedHunk(modified_content, hunk, TRUE)
           IN  back.ok /\ back.content = prev_content

\* the indices at which the anchor is found, by the containment rule
HasSubstring(sub, s) ==
    \E k \in 0..(Len(s) - Len(sub)) : SubSeq(s, k + 1, k + Len(sub)) = sub

ContainmentIndices(c, anchor) ==
    LET al == Split(anchor)
    IN  {m \in 0..(Len(c) - Len(al)) :
            \A j \in 1..Len(al) : HasSubstring(Strip(al[j]), c[m + j])}

Ascending(xs) == \A a, b \in 1..Len(xs) : a < b => xs[a] < xs[b]

IsMatchList(xs, c, anchor) ==
    /\ Ascending(xs)
    /\ {xs[k] : k \in 1..Len(xs)} = ContainmentIndices(c, anchor)

\* C7: the port is called once for an anchor hunk whose anchor has several
\* matches, with all the match indices on the current content in ascending
\* order, and never otherwise; the index it answers is where the hunk is applied.
C7_PortCalledOnAmbiguity ==
    /\ AtUnified => last.calls = <<>>
    /\ (AtAnchor /\ AnchorMissing(hunk)) => last.calls = <<>>
    /\ (AtAnchor /\ ~AnchorMissing(hunk))
          => IF Cardinality(ContainmentIndices(prev_content, hunk.anchor)) > 1
             THEN /\ Len(last.calls) = 1
                  /\ IsMatchList(last.calls[1], prev_content, hunk.anchor)
                  /\ last.reply.kind = "index"
                        => /\ last.target_line = last.reply.index
                           /\ Outcome = "applied"
                           /\ modified_content
                                 = PerformAnchorChanges(prev_content, hunk,
                                                        last.reply.index, revert)
             ELSE last.calls = <<>>

C7_Witness ==
    /\ AtAnchor
    /\ last.calls = << <<0, 2>> >>
    /\ last.reply = [kind |-> "index", index |-> 2]
    /\ last.target_line = 2
    /\ modified_content # prev_content

\* C8: a None from the port aborts that hunk alone: it is counted as failed
\* with the cancelled warning, the content is unchanged, and the later hunks
\* are still processed.
C8_CancelAbortsOneHunk ==
    /\ (pc = "body" /\ last.reply.kind = PortCancel)
          => /\ Outcome = "failed"
             /\ results.warnings[Len(results.warnings)] = "cancelled"
             /\ modified_content = prev_content
    /\ (pc = "done" /\ \E k \in 1..Len(results.warnings) : results.warnings[k] = "cancelled")
          => i = nhunks

C8_Witness ==
    /\ pc = "body"
    /\ i = 2
    /\ results.warnings = <<"cancelled">>
    /\ log[1].outcome = "failed"
    /\ Outcome = "applied"
    /\ modified_content # prev_content

\* C9 as stated: the additions of an anchor hunk applied at match index k are
\* placed immediately after line k.
C9_AdditionsAfterAnchorLine ==
    (AtAnchor /\ Outcome = "applied")
        => LET k == last.target_line
               adds == AnchorAdditions(hunk, revert)
           IN  \A j \in 1..Len(adds) :
                   /\ k + 1 + j <= Len(modified_content)
                   /\ RStripNL(modified_content[k + 1 + j]) = adds[j]

\* C9 as amended: the additions of an anchor hunk applied at match index k
\* are placed from index k on, in hunk order; when the hunk removes nothing
\* the line that was at index k follows them.
C9_AdditionsAtAnchorIndex ==
    (AtAnchor /\ Outcome = "applied")
        => LET k == last.target_line
               adds == AnchorAdditions(hunk, revert)
           IN  /\ \A j \in 1..Len(adds) :
                      /\ k + j <= Len(modified_content)
                      /\ RStripNL(modified_content[k + j]) = adds[j]
               /\ AnchorRemovals(hunk, revert) = <<>>
                     => /\ Len(modified_content) = Len(prev_content) + Len(adds)
                        /\ modified_content[k + Len(adds) + 1] = prev_content[k + 1]

C9_Witness ==
    /\ AtAnchor
    /\ hunk.type = "explicit_anchor"
    /\ ~revert
    /\ Len(prev_content) = 2
    /\ prev_content[1] = prev_content[2]
    /\ last.calls = << <<0, 1>> >>
    /\ last.reply = [kind |-> "index", index |-> 1]
    /\ Len(hunk.lines) = 1
    /\ hunk.lines[1].type = "+"
    /\ modified_content
          = <<prev_content[1], Append(hunk.lines[1].content, NL), prev_content[2]>>

\* C10: _find_anchor_matches returns, ascending and without omission or
\* duplicate, the indices at which every anchor line, trimmed, is a substring
\* of the content line at its offset.
C10_MatchesAreContainmentIndices ==
    (AtAnchor /\ ~AnchorMissing(hunk))
        => IsMatchList(last.matches, prev_content, hunk.anchor)

C10_Witness ==
    /\ AtAnchor
    /\ hunk.anchor = <<SP, "b", NL, SP, "b">>
    /\ prev_content = << <<"a", "b", NL>>, <<SP, "b", NL>>, <<"a", "b">> >>
    /\ last.matches = <<0, 1>>

\* C2: parse_patch never raises, whatever the patch text; a segment whose @@
\* line matches none of the three header patterns is skipped.
C2_ParseNeverRaises == parser_pc # "raised"

\* C11: a header that is @@ followed only by whitespace gives an implicit-anchor
\* hunk, every explicit-anchor hunk carries a non-empty anchor, the trimmed
\* text after @@, and a header matching the unified pattern gives a unified hunk.
C11_HeaderClassification ==
    \A k \in 1..Len(parsed) :
        LET h == parsed[k] IN
        /\ Strip(Drop(h.header, 2)) = <<>> => h.type = "implicit_anchor"
        /\ h.type = "explicit_anchor"
              => h.anchor # <<>> /\ h.anchor = Strip(Drop(h.header, 2))
        /\ UnifiedHeaderMatch(h.header).ok => h.type = "unified"

\* C12: every hunk parse_patch returns carries at least one line; a header
\* followed by no body line gives no hunk.
C12_EveryHunkHasALine ==
    \A k \in 1..Len(parsed) : parsed[k].lines # <<>>

\* a line that starts with @@ and matches none of the three header patterns
Unrecognized(line) ==
    /\ StartsWith(line, <<AT, AT>>)
    /\ ~UnifiedHeaderMatch(line).ok
    /\ ~ExplicitAnchorMatch(line).ok
    /\ ~ImplicitAnchorMatch(line)

\* C19: an unrecognized @@ header whose body has a remove line before an add
\* line gives a unified hunk with no usable start and the body as its lines;
\* any other unrecognized header is discarded and the scan goes on.
C19_FallbackHeuristic ==
    /\ parser_pc # "raised"
    /\ parser_pc = "returned"
          => \A k \in 0..(Len(patch_lines) - 1) :
                 Unrecognized(patch_lines[k + 1])
                    => LET body == ExtractHunkLines(patch_lines, k + 1)[1] IN
                       IF LooksLikeUnifiedWithoutOffsets(body)
                       THEN \E n \in 1..Len(parsed) :
                                /\ parsed[n].type = "unified"
                                /\ parsed[n].header = patch_lines[k + 1]
                                /\ parsed[n].lines = body
                                /\ parsed[n].old_start <= 1
                       ELSE \A n \in 1..Len(parsed) :
                                parsed[n].header # patch_lines[k + 1]

\* the remove lines a hunk starts with
RECURSIVE LeadingRemoveBlock(_)
LeadingRemoveBlock(lines) ==
    IF lines = <<>> \/ Head(lines).type # "-" THEN <<>>
    ELSE <<Head(lines).content>> \o LeadingRemoveBlock(Tail(lines))

\* C20: the anchor of an implicit-anchor hunk is the newline-join of the
\* remove lines the hunk starts with; a hunk that starts with none has no anchor.
C20_ImplicitAnchorIsLeadingRemoves ==
    \A k \in 1..Len(parsed) :
        parsed[k].type = "implicit_anchor"
           => parsed[k].anchor = IF LeadingRemoveBlock(parsed[k].lines) = <<>>
                                 THEN NoAnchor
                                 ELSE Join(LeadingRemoveBlock(parsed[k].lines))

\* the warnings each kind of hunk gives when it is not applied
FailureWarnings(h) ==
    IF h.type = "unified" THEN {"position_not_found", "context_mismatch"}
    ELSE IF h.type = "explicit_anchor"
    THEN {"anchor_missing", "anchor_not_found", "cancelled", "error"}
    ELSE {"implicit_anchor_missing", "implicit_anchor_not_found", "cancelled", "error"}

LastWarning == results.warnings[Len(results.warnings)]

\* C13: a hunk counted as failed appends one warning that tells the reason
\* and a hunk counted as applied appends none, so the number of warnings is
\* the failed count (hunks of the three kinds the parser produces).
C13_WarningPerFailedHunk ==
    /\ Len(results.warnings) = results.failed
    /\ results.failed = Cardinality({k \in 1..Len(log) : log[k].outcome # "applied"})
    /\ (pc = "body" /\ Outcome # "applied") => LastWarning \in FailureWarnings(hunk)

C13_Witness ==
    /\ pc = "done"
    /\ nhunks = 2
    /\ log[1].outcome = "applied"
    /\ log[2].outcome = "failed"
    /\ results.failed = 1
    /\ results.warnings = <<"implicit_anchor_not_found">>

\* C14: two consecutive add lines of a unified hunk applied without revert
\* stand next to each other in the result, in the order of the hunk.
C14_ConsecutiveAddsInOrder ==
    (AtUnified /\ ~revert /\ Outcome = "applied")
        => \A k \in 1..(Len(hunk.lines) - 1) :
               (hunk.lines[k].type = "+" /\ hunk.lines[k + 1].type = "+")
                  => \E p \in 1..(Len(modified_content) - 1) :
                         /\ RStripNL(modified_content[p]) = hunk.lines[k].content
                         /\ RStripNL(modified_content[p + 1]) = hunk.lines[k + 1].content

Count(xs, x) == Cardinality({k \in 1..Len(xs) : xs[k] = x})

\* C15: in a unified hunk applied without revert every remove line deletes
\* the content line it was validated against and no line the hunk inserted:
\* the lines around the old block stay, and the block is replaced by the
\* context and add lines of the hunk (whatever their order).
C15_RemovesDeleteValidatedLines ==
    (/\ AtUnified /\ ~revert /\ Outcome = "applied"
     /\ \E k \in 1..Len(hunk.lines) : hunk.lines[k].type = "-")
        => LET t == last.target_line
               old == OldBlock(hunk)
               new == NewBlock(hunk)
               res == Stripped(modified_content)
               rest == Len(prev_content) - t - Len(old)
           IN  /\ Len(res) = Len(prev_content) - Len(old) + Len(new)
               /\ SubSeq(res, 1, t) = Stripped(SubSeq(prev_content, 1, t))
               /\ SubSeq(res, Len(res) - rest + 1, Len(res))
                     = Stripped(SubSeq(prev_content, t + Len(old) + 1, Len(prev_content)))
               /\ \A x \in HunkTexts \cup ContentTexts :
                      Count(SubSeq(res, t + 1, t + Len(new)), x) = Count(new, x)

\* the walk of the validation: the k-th context or remove line of h equals,
\* trailing terminators aside, the line of c at index t + k - 1, which exists
ValidAt(c, h, t) ==
    LET old == SelectSeq(h.lines, IsOldLine)
    IN  \A k \in 1..Len(old) :
            /\ t + k <= Len(c)
            /\ RStripNL(c[t + k]) = RStripNL(old[k].content)

\* C16: a unified hunk changes the content only if its context and remove
\* lines match at the resolved index; on a mismatch or past the end of the
\* content it fails with the context-mismatch warning.
C16_MutatesOnlyIfValid ==
    (AtUnified /\ last.target_line # NoIndex)
        => IF ValidAt(prev_content, hunk, last.target_line)
           THEN /\ Outcome = "applied"
                /\ modified_content
                      = PerformUnifiedChanges(prev_content, hunk, last.target_line, revert)
           ELSE /\ Outcome = "failed"
                /\ LastWarning = "context_mismatch"
                /\ modified_content = prev_content

C16_Witness ==
    /\ AtUnified
    /\ Outcome = "failed"
    /\ LastWarning = "context_mismatch"
    /\ Len(prev_content) = 2
    /\ last.target_line = 1
    /\ Len(hunk.lines) = 2
    /\ hunk.lines[1].type = "-"
    /\ hunk.lines[2].type = " "
    /\ RStripNL(prev_content[2]) = hunk.lines[1].content
    /\ modified_content = prev_content

\* C17: a declared start greater than 1 is taken as it is, without a search:
\* a hunk that does not match there fails with a context mismatch, even when
\* its block stands elsewhere in the content.
C17_DeclaredStartIsNotSearched ==
    (AtUnified /\ DeclaredStart(hunk))
        => /\ last.target_line = hunk.old_start - 1
           /\ ~ValidAt(prev_content, hunk, hunk.old_start - 1)
                 => /\ Outcome = "failed"
                    /\ LastWarning = "context_mismatch"
                    /\ modified_content = prev_content

C17_Witness ==
    /\ AtUnified
    /\ DeclaredStart(hunk)
    /\ Outcome = "failed"
    /\ OldBlock(hunk) # <<>>
    /\ \E t \in 0..Len(prev_content) :
           t # hunk.old_start - 1 /\ ValidAt(prev_content, hunk, t)
    /\ modified_content = prev_content

\* the indices a search may answer: where the context lines of h, in order,
\* equal consecutive lines of c, or without context lines where a line of c
\* equals the first remove line of h
SearchCandidates(c, h) ==
    LET ctx == Texts(SelectSeq(h.lines, IsContextLine))
        rem == LinesOfType(h.lines, "-")
    IN  IF ctx # <<>>
        THEN {t \in 0..(Len(c) - Len(ctx)) :
                 \A j \in 1..Len(ctx) : RStripNL(c[t + j]) = RStripNL(ctx[j])}
        ELSE IF rem # <<>>
        THEN {t \in 0..(Len(c) - 1) : RStripNL(c[t + 1]) = RStripNL(rem[1])}
        ELSE {}

\* C18: a unified hunk without a usable start is resolved to the first index
\* at which its context lines match, or without context lines to the first
\* line equal to its first remove line; when there is none it fails with the
\* position-not-found warning.
C18_SearchFindsFirstCandidate ==
    (AtUnified /\ ~DeclaredStart(hunk))
        => LET cands == SearchCandidates(prev_content, hunk)
           IN  IF cands = {}
               THEN /\ last.target_line = NoIndex
                    /\ Outcome = "failed"
                    /\ LastWarning = "position_not_found"
                    /\ modified_content = prev_content
               ELSE /\ last.target_line \in cands
                    /\ \A t \in cands : last.target_line <= t

C18_Witness ==
    /\ AtUnified
    /\ ~DeclaredStart(hunk)
    /\ Outcome = "applied"
    /\ SelectSeq(hunk.lines, IsContextLine) = <<>>
    /\ Len(hunk.lines) = 2
    /\ hunk.lines[1].type = "+"
    /\ hunk.lines[2].type = "-"
    /\ last.target_line = 1
    /\ Cardinality(SearchCandidates(prev_content, hunk)) = 2

\* a line with nothing but whitespace
Blank(line) == Strip(line) = <<>>

\* the line at index e, reached from the first body line at index start, ends
\* the body: a header, a file header, or a blank line that is not the first
\* body line and is followed, blank lines aside, by a header
EndsBody(lines, start, e) ==
    \/ StartsWith(lines[e + 1], <<AT, AT>>)
    \/ IsFileHeader(lines[e + 1])
    \/ /\ Blank(lines[e + 1])
       /\ e > start
       /\ \E n \in (e + 1)..(Len(lines) - 1) :
              /\ StartsWith(lines[n + 1], <<AT, AT>>)
              /\ \A m \in (e + 1)..(n - 1) : Blank(lines[m + 1])

\* the index at which the body that starts at index start ends
BodyEnd(lines, start) ==
    IF \E e \in start..(Len(lines) - 1) : EndsBody(lines, start, e)
    THEN CHOOSE e \in start..(Len(lines) - 1) :
             /\ EndsBody(lines, start, e)
             /\ \A f \in start..(e - 1) : ~EndsBody(lines, start, f)
    ELSE Len(lines)

\* the lines of that body, a blank line being an empty context line
ExpectedBody(lines, start) ==
    [k \in 1..(BodyEnd(lines, start) - start) |->
        IF Blank(lines[start + k])
        THEN [type |-> " ", content |-> Drop(lines[start + k], 1)]
        ELSE ClassifyLine(lines[start + k])]

\* C21: the body of a hunk is the lines after its header up to the next @@
\* line, --- or +++ line or the end of the input; a blank line ends it only
\* when it is not the first body line and the next non-blank line starts with
\* @@, and is otherwise kept as an empty context line.
C21_BodyExtraction ==
    parser_pc \in {"scan", "returned"}
        => LET heads == {k \in 0..(scan - 1) :
                            k < Len(patch_lines)
                            /\ StartsWith(patch_lines[k + 1], <<AT, AT>>)}
           IN  /\ Cardinality(heads) = Len(parsed)
               /\ \A k \in heads :
                      LET n == Cardinality({j \in heads : j <= k}) IN
                      /\ parsed[n].header = patch_lines[k + 1]
                      /\ parsed[n].lines = ExpectedBody(patch_lines, k + 1)
                      /\ scan >= BodyEnd(patch_lines, k + 1)

C21_Witness ==
    /\ parser_pc = "returned"
    /\ patch_lines = << <<AT, AT>>, <<>>, <<>>, <<AT, AT>> >>
    /\ Len(parsed) = 2
    /\ parsed[1].lines = << [type |-> " ", content |-> <<>>] >>
    /\ parsed[2].lines = <<>>

Max(a, b) == IF a > b THEN a ELSE b

\* the first index in a..e-1 of a line of c that contains the removal text
FirstContaining(c, text, a, e) ==
    LET found == {k \in a..(Min(e, Len(c)) - 1) : Contains(Strip(text), RStripNL(c[k + 1]))}
    IN  IF found = {} THEN NoIndex
        ELSE CHOOSE k \in found : \A m \in found : k <= m

\* the lines of c whose index is not in S, from index k on
RECURSIVE Without(_, _, _)
Without(c, S, k) ==
    IF k >= Len(c) THEN <<>>
    ELSE (IF k \in S THEN <<>> ELSE <<c[k + 1]>>) \o Without(c, S, k + 1)

\* the hunk at anchor index a deleted exactly the first line of each removal
\* text found before index e, the removal texts marking distinct lines, and
\* placed its additions from index a on
DeletedFirstBefore(e) ==
    LET a == last.target_line
        rem == AnchorRemovals(hunk, revert)
        n == Len(AnchorAdditions(hunk, revert))
        first == [j \in 1..Len(rem) |-> FirstContaining(prev_content, rem[j], a, e)]
        marked == {first[j] : j \in 1..Len(rem)} \ {NoIndex}
        kept == Without(prev_content, marked, 0)
    IN  (\A j1, j2 \in 1..Len(rem) :
             (j1 # j2 /\ first[j1] # NoIndex) => first[j1] # first[j2])
            => /\ Len(modified_content) = Len(kept) + n
               /\ SubSeq(modified_content, 1, a) = SubSeq(kept, 1, a)
               /\ SubSeq(modified_content, a + n + 1, Len(modified_content))
                      = SubSeq(kept, a + 1, Len(kept))

AfterDeletions ==
    AfterAnchorRemovals(prev_content, hunk, last.target_line, revert)

\* C23: after the deletions of an anchor hunk applied at index a, its
\* additions A1..An stand at indices a..a+n-1 in list order, and the lines
\* that were at index a and beyond follow them in their previous order.
C23_AdditionsConsecutiveFromAnchor ==
    (AtAnchor /\ Outcome = "applied")
        => LET a == last.target_line
               adds == AnchorAdditions(hunk, revert)
               n == Len(adds)
               d == AfterDeletions
           IN  /\ Len(modified_content) = Len(d) + n
               /\ \A j \in 1..n : RStripNL(modified_content[a + j]) = adds[j]
               /\ SubSeq(modified_content, 1, a) = SubSeq(d, 1, a)
               /\ SubSeq(modified_content, a + n + 1, Len(modified_content))
                      = SubSeq(d, a + 1, Len(d))

C23_Witness ==
    /\ AtAnchor
    /\ Outcome = "applied"
    /\ Len(AnchorAdditions(hunk, revert)) = 1
    /\ Len(AfterDeletions) = Len(prev_content) - 1
    /\ last.target_line >= 1
    /\ last.target_line < Len(AfterDeletions)
    /\ RStripNL(modified_content[last.target_line + 1]) = AnchorAdditions(hunk, revert)[1]
    /\ modified_content[last.target_line + 2] = AfterDeletions[last.target_line + 1]

\* C24: every line of the result except possibly the last ends with a line
\* terminator, the input content having had that form.
C24_OnlyLastLineUnterminated ==
    \A k \in 1..(Len(modified_content) - 1) : EndsWithNL(modified_content[k])

\* the running index of hunk line j: the resolved start plus the context and
\* remove lines walked before it
RunningIndex(lines, j, start) ==
    start + Cardinality({k \in 1..(j - 1) : lines[k].type \in {" ", "-"}})

\* C25: in revert mode a remove line of a unified hunk is inserted at the
\* running index reached by walking the hunk lines up to that line (stated
\* for an applied hunk with one remove line and no add line).
C25_RevertInsertsAtRunningIndex ==
    (/\ AtUnified
     /\ revert
     /\ Outcome = "applied"
     /\ LinesOfType(hunk.lines, "+") = <<>>
     /\ Len(LinesOfType(hunk.lines, "-")) = 1)
        => LET j == CHOOSE j \in 1..Len(hunk.lines) : hunk.lines[j].type = "-"
               at == RunningIndex(hunk.lines, j, last.target_line)
           IN  Stripped(modified_content)
                   = Stripped(Insert(prev_content, at, hunk.lines[j].content))

\* the values a header can declare for old_count, new_start and new_count
DeclaredCounts == 0..MaxLines

\* the hunk h with the declared counts of its header
WithCounts(h, oc, ns, nc) ==
    [type |-> h.type, lines |-> h.lines, old_start |-> h.old_start,
     anchor |-> h.anchor, old_count |-> oc, new_start |-> ns, new_count |-> nc]

C27_DeletesOnlyMarkedLines ==
    (AtAnchor /\ Outcome = "applied")
        => \A k \in 1..Len(prev_content) :
               (\A j \in 1..Len(AnchorRemovals(hunk, revert)) :
                    ~Contains(Strip(AnchorRemovals(hunk, revert)[j]),
                              RStripNL(prev_content[k])))
                   => Count(Stripped(modified_content), RStripNL(prev_content[k]))
                          >= Count(Stripped(prev_content), RStripNL(prev_content[k]))

RECURSIVE Concat(_)
Concat(lines) ==
    IF lines = <<>> THEN <<>> ELSE Head(lines) \o Concat(Tail(lines))

\* C29: in single-file mode, when a hunk was applied and the user confirms,
\* the text written to the target file is the concatenation, in order, of the
\* lines apply_hunks returned.
C29_SavedTextIsConcatenation ==
    (run_pc = "exit" /\ ~is_dir /\ written # NotWritten)
        => written = Concat(modified_content)

\* C30: in directory mode a run whose patch gave at least one hunk reaches
\* apply_hunks and does not end with exit code 1 before any hunk is tried.
C30_DirectoryModeReachesApply ==
    (run_pc = "exit" /\ is_dir /\ nhunks > 0)
        => (pc = "done" /\ i = nhunks)

====
